---- MODULE Spec2Model ----
(***************************************************************************)
(* Scan synchronisation subsystem of shannon-scanner:                      *)
(*   - the scan store                    (src/src/web/db.ts)               *)
(*   - the scan routes create / syncOne / syncAll                          *)
(*                                        (src/src/web/routes/scans.ts)    *)
(*   - startWorkflow / queryWorkflowProgress and the getTemporalClient     *)
(*     they call                          (src/unnamed/part_001:220-315)   *)
(*   - the lazily connected, deduplicating Temporal client                 *)
(*                                        (src/src/web/temporal-client.ts) *)
(*                                                                         *)
(* Spec       : the routes running over the store and over the client      *)
(*              module that defines startWorkflow / queryWorkflowProgress. *)
(* SpecClient : the connection life cycle of temporal-client.ts under      *)
(*              concurrent getTemporalClient / closeTemporalConnection.    *)
(* SpecStore  : createScan / updateScan called directly on the store.      *)
(* SpecLookup : the store's lookups, and syncOne of an id it does not hold.*)
(* SpecRead   : the two GET routes next to create requests in flight.      *)
(* SpecLive   : create and syncAll requests, every awaited promise         *)
(*              eventually settling and every continuation eventually run. *)
(* SpecClose  : the client module when closeTemporalConnection is the last *)
(*              operation invoked.                                         *)
(* SpecShutdown : requests in flight while server.ts shuts the server down.*)
(***************************************************************************)
EXTENDS Integers, Sequences, FiniteSets, TLC

(* ------------------------------ bounds --------------------------------- *)
MaxScans == 2        \* scan records that create requests may insert
MaxTime == 1         \* the wall clock runs over 0..MaxTime
NumSlots == 2        \* request handlers that can be in flight at once
MaxConn == 3         \* Connection.connect attempts (SpecClient)
MaxCallers == 2      \* concurrent callers of getTemporalClient (SpecClient)
MaxClosers == 2      \* concurrent closeTemporalConnection calls (SpecClient)

NULL == "NULL"       \* JavaScript null / undefined

Slots == 1..NumSlots
ScanIds == 1..MaxScans

(* --------------------------- request inputs ----------------------------- *)
Urls == {"https://a.com"}
Repos == {"repo"}
Configs == {NULL}        \* configPath absent

(* sanitizeHostname (../audit/utils.js): the host of the URL with every   *)
(* character outside [a-zA-Z0-9-] replaced by '-'.                         *)
sanitizeHostname(url) ==
  CASE url = "https://a.com" -> "a-com"
    [] url = "https://b.com" -> "b-com"
    [] OTHER -> "unknown"

(* `${hostname}_shannon-${Date.now()}` *)
WorkflowIdOf(url, t) == sanitizeHostname(url) \o "_shannon-" \o ToString(t)

(* ------------------------------ strings --------------------------------- *)
Contains(s, m) ==
  \E i \in 1..(Len(s) - Len(m) + 1) : SubSeq(s, i, i + Len(m) - 1) = m

(* --------------------------- JSON (de)coding ---------------------------- *)
Agents == <<"pre-recon", "recon">>
AgentLists == { <<>>, <<"pre-recon">>, <<"pre-recon", "recon">>, <<"recon">>,
                <<"recon", "pre-recon">> }
\* summary objects, written as the tuple of their <<key, value>> members
Summary(cost, duration, turns, count) ==
  << <<"totalCostUsd", cost>>, <<"totalDurationMs", duration>>,
     <<"totalTurns", turns>>, <<"agentCount", count>> >>
Summaries == { Summary(3, 60, 7, 2) }

RECURSIVE JoinQuoted(_)
JoinQuoted(xs) ==
  IF Len(xs) = 0 THEN ""
  ELSE IF Len(xs) = 1 THEN "\"" \o xs[1] \o "\""
  ELSE "\"" \o xs[1] \o "\"," \o JoinQuoted(Tail(xs))

\* JSON.stringify of a string array
StringifyAgents(xs) == "[" \o JoinQuoted(xs) \o "]"

\* JSON.stringify of a summary object
RECURSIVE JoinMembers(_)
JoinMembers(o) ==
  IF Len(o) = 0 THEN ""
  ELSE "\"" \o o[1][1] \o "\":" \o ToString(o[1][2])
         \o (IF Len(o) = 1 THEN "" ELSE "," \o JoinMembers(Tail(o)))

StringifySummary(o) == "{" \o JoinMembers(o) \o "}"

\* JSON.parse, the inverse of JSON.stringify on the values the store holds
ParseAgents(s) == CHOOSE xs \in AgentLists : StringifyAgents(xs) = s
ParseSummary(s) == CHOOSE o \in Summaries : StringifySummary(o) = s

(* ------------------------------ the store ------------------------------- *)
\* an INSERT that leaves config_path out
NewRowNoConfig(id, targetUrl, repoPath, configPath, t) ==
  [ id |-> id, workflow_id |-> NULL, target_url |-> targetUrl,
    repo_path |-> repoPath, config_path |-> NULL, status |-> "pending",
    current_phase |-> NULL, current_agent |-> NULL, completed_agents |-> "[]",
    error |-> NULL, created_at |-> t, updated_at |-> t, summary |-> NULL ]

\* INSERT of createScan: id, inputs, status 'pending', completed_agents '[]',
\* created_at = updated_at = now; every other column NULL.
NewRow(id, targetUrl, repoPath, configPath, t) ==
  [ id |-> id, workflow_id |-> NULL, target_url |-> targetUrl,
    repo_path |-> repoPath, config_path |-> configPath, status |-> "pending",
    current_phase |-> NULL, current_agent |-> NULL, completed_agents |-> "[]",
    error |-> NULL, created_at |-> t, updated_at |-> t, summary |-> NULL ]

\* crypto.randomUUID(): an id no stored record has
FreshId(scs) == Len(scs) + 1

\* an INSERT into a table that is emptied first
createScanReplacing(scs, targetUrl, repoPath, configPath, t) ==
  <<NewRow(FreshId(scs), targetUrl, repoPath, configPath, t)>>

\* createScan: the table after the INSERT (rows kept in insertion order)
createScan(scs, targetUrl, repoPath, configPath, t) ==
  Append(scs, NewRow(FreshId(scs), targetUrl, repoPath, configPath, t))

\* the ids of the stored records
StoredIds(scs) == { scs[i].id : i \in DOMAIN scs }

\* getScan: TRUE when SELECT ... WHERE id = ? finds a row
HasScan(scs, id) == id \in DOMAIN scs

\* the SET clause built by updateScan: a patch is a function from a subset of
\* the UpdateScanInput field names to values; absent = undefined
PatchFields == {"workflowId", "status", "currentPhase", "currentAgent",
                "completedAgents", "error", "summary"}

\* a slip that tests the value instead of its presence: `if (input.x)`
ProvidedTruthy(patch, f) == f \in DOMAIN patch /\ patch[f] # NULL

\* `input.x !== undefined`
Provided(patch, f) == f \in DOMAIN patch

SetClause(row, patch) ==
  LET r1 == IF Provided(patch, "workflowId")
              THEN [row EXCEPT !.workflow_id = patch["workflowId"]] ELSE row
      r2 == IF Provided(patch, "status")
              THEN [r1 EXCEPT !.status = patch["status"]] ELSE r1
      r3 == IF Provided(patch, "currentPhase")
              THEN [r2 EXCEPT !.current_phase = patch["currentPhase"]] ELSE r2
      r4 == IF Provided(patch, "currentAgent")
              THEN [r3 EXCEPT !.current_agent = patch["currentAgent"]] ELSE r3
      r5 == IF Provided(patch, "completedAgents")
              THEN [r4 EXCEPT !.completed_agents =
                                 StringifyAgents(patch["completedAgents"])] ELSE r4
      r6 == IF Provided(patch, "error")
              THEN [r5 EXCEPT !.error = patch["error"]] ELSE r5
      r7 == IF Provided(patch, "summary")
              THEN [r6 EXCEPT !.summary =
                      IF patch["summary"] # NULL
                        THEN StringifySummary(patch["summary"]) ELSE NULL] ELSE r6
  IN r7

\* a workflow_id column declared without UNIQUE
UniqueViolationUnchecked(scs, id, patch) == FALSE

\* workflow_id TEXT UNIQUE: the UPDATE is rejected when another row already
\* holds the new workflow_id
UniqueViolation(scs, id, patch) ==
  /\ HasScan(scs, id)
  /\ "workflowId" \in DOMAIN patch
  /\ \E j \in DOMAIN scs : j # id /\ scs[j].workflow_id = patch["workflowId"]

UNIQUE_MSG == "UNIQUE constraint failed: scans.workflow_id"

\* an updateScan without the early return: the UPDATE always runs
NoFieldsNever(patch) == FALSE

\* `fields.length === 0`: no field of the patch is defined
NoFields(patch) == \A f \in PatchFields : ~Provided(patch, f)

\* an UPDATE that writes the time into created_at as well
StampCreated(row, t) == [row EXCEPT !.updated_at = t, !.created_at = t]

\* an UPDATE that does not touch updated_at
StampKept(row, t) == row

\* `fields.push('updated_at = ?'); values.push(new Date().toISOString())`
Stamp(row, t) == [row EXCEPT !.updated_at = t]

\* an UPDATE without its WHERE clause: every row is written
updateScanEveryRow(scs, id, patch, t) ==
  IF ~HasScan(scs, id) \/ NoFields(patch) \/ UniqueViolation(scs, id, patch)
    THEN scs
    ELSE [ j \in DOMAIN scs |-> Stamp(SetClause(scs[j], patch), t) ]

\* updateScan: the table after the call (the call throws, and the table is
\* unchanged, when UniqueViolation holds)
updateScan(scs, id, patch, t) ==
  IF ~HasScan(scs, id) \/ NoFields(patch) \/ UniqueViolation(scs, id, patch)
    THEN scs
    ELSE [scs EXCEPT ![id] = Stamp(SetClause(scs[id], patch), t)]

\* getScan: the row with this id, if there is one
getScan(scs, id) == IF HasScan(scs, id) THEN <<scs[id]>> ELSE <<>>

\* a lookup that falls back to some row when the workflow id is not stored
getScanByWorkflowIdOrAny(scs, workflowId) ==
  IF \E i \in DOMAIN scs : scs[i].workflow_id = workflowId
    THEN <<scs[CHOOSE i \in DOMAIN scs : scs[i].workflow_id = workflowId]>>
    ELSE IF scs # <<>> THEN <<scs[1]>> ELSE <<>>

\* getScanByWorkflowId: the row with this workflow_id, if there is one
getScanByWorkflowId(scs, workflowId) ==
  IF \E i \in DOMAIN scs : scs[i].workflow_id = workflowId
    THEN <<scs[CHOOSE i \in DOMAIN scs : scs[i].workflow_id = workflowId]>>
    ELSE <<>>

\* listScans: SELECT * FROM scans ORDER BY created_at DESC.  The statement
\* orders by created_at alone, so rows with equal created_at may come in
\* either order: ListOrders is the set of results the query can give.
ListOrders(scs) ==
  { [ k \in DOMAIN scs |-> scs[p[k]] ] :
      p \in { q \in [DOMAIN scs -> DOMAIN scs] :
                /\ \A k, l \in DOMAIN scs : k # l => q[k] # q[l]
                /\ \A k, l \in DOMAIN scs :
                     k < l => scs[q[k]].created_at >= scs[q[l]].created_at } }

\* formatScan: the public shape of a row
formatScan(row) ==
  [ id |-> row.id, workflowId |-> row.workflow_id, targetUrl |-> row.target_url,
    repoPath |-> row.repo_path, configPath |-> row.config_path,
    status |-> row.status, currentPhase |-> row.current_phase,
    currentAgent |-> row.current_agent,
    completedAgents |-> ParseAgents(row.completed_agents),
    error |-> row.error, createdAt |-> row.created_at,
    updatedAt |-> row.updated_at,
    summary |-> IF row.summary # NULL THEN ParseSummary(row.summary) ELSE NULL ]

(* ---------------------------- orchestrator ------------------------------ *)
\* What the workflow's getProgress query answers (WorkflowProgress), by the
\* stage the workflow has reached.  Only the fields the routes copy are kept.
Stages == {"running", "completed", "failed"}

ProgressAt(stage) ==
  CASE stage = "running" ->
         [ status |-> "running", currentPhase |-> "recon",
           currentAgent |-> "recon", completedAgents |-> <<"pre-recon">>,
           error |-> NULL, summary |-> NULL ]
    [] stage = "completed" ->
         [ status |-> "completed", currentPhase |-> NULL,
           currentAgent |-> NULL, completedAgents |-> <<"pre-recon", "recon">>,
           error |-> NULL, summary |-> Summary(3, 60, 7, 2) ]
    [] OTHER ->
         [ status |-> "failed", currentPhase |-> "recon",
           currentAgent |-> NULL, completedAgents |-> <<>>,
           error |-> "recon agent failed", summary |-> NULL ]

NextStages(stage) ==
  IF stage = "running" THEN {"completed", "failed"} ELSE {}

\* failure messages of the Temporal SDK
CONNECT_MSG == "connect ECONNREFUSED"
START_MSG == "Workflow execution already started"

(* ------------------------------- state ---------------------------------- *)
VARIABLES
  scans,        \* the scans table, rows in insertion order (db.ts)
  now,          \* the wall clock: Date.now() / new Date()
  connection,   \* module variable `connection` of the client module
  client,       \* module variable `client`
  connecting,   \* module variable `connecting` (temporal-client.ts)
  nconn,        \* Spec: connections established by the running process
  workflows,    \* orchestrator: workflow id -> stage reached
  slots,        \* request handlers in flight: which route, which scan
  resp,         \* the response sent by the step just taken, if any
  tasks,        \* per handler, the orchestrator calls it has in flight
  startLog,     \* per scan, how its startWorkflow call ended
  lastTerminal, \* per scan, <<the record last returned by a syncOne that
                \* found the scan completed / failed>>, or <<>>
  attempts,     \* SpecClient: state of each connect attempt (promise)
  open,         \* SpecClient: connections established and not yet closed
  callers,      \* SpecClient: callers of getTemporalClient
  closers,      \* SpecClient: closeTemporalConnection calls
  server        \* the HTTP server: listening, draining (server.close was
                \* called), closing (closeTemporalConnection awaits), exited

routeVars == <<scans, now, workflows, slots, resp, tasks, startLog,
               lastTerminal>>
lifecycleVars == <<connecting, attempts, open, callers, closers, server>>
vars == <<server, attempts, callers, closers, open, tasks, slots, resp, scans, now,
          workflows, startLog, lastTerminal, nconn, connection, client,
          connecting>>

IdleSlot == [ kind |-> "none", pc |-> "idle", id |-> 0, socket |-> "none" ]
NoResp == [ slot |-> 0, kind |-> "none", id |-> 0, code |-> 0, body |-> NULL,
            branch |-> "none" ]
NoTasks == <<>>
NoRes == [ tag |-> "none" ]

Init ==
  /\ scans = <<>>
  /\ now = 0
  /\ connection = NULL
  /\ client = NULL
  /\ connecting = NULL
  /\ nconn = 0
  /\ workflows = <<>>
  /\ slots = [s \in Slots |-> IdleSlot]
  /\ resp = NoResp
  /\ tasks = [s \in Slots |-> NoTasks]
  /\ startLog = <<>>
  /\ lastTerminal = <<>>
  /\ attempts = <<>>
  /\ open = {}
  /\ callers = [c \in 1..MaxCallers |-> [pc |-> "idle", att |-> 0, got |-> NULL]]
  /\ closers = [c \in 1..MaxClosers |-> [pc |-> "idle", conn |-> NULL]]
  /\ server = "listening"

\* the clock advances
Tick ==
  /\ now < MaxTime
  /\ now' = now + 1
  /\ resp' = NoResp
  /\ UNCHANGED <<lastTerminal, scans, connection, client, nconn,
                 workflows, slots, tasks, startLog, lifecycleVars>>

\* the orchestrator runs a workflow one stage further
WorkflowAdvance(w) ==
  /\ w \in DOMAIN workflows
  /\ \E st \in NextStages(workflows[w]) :
       workflows' = [workflows EXCEPT ![w] = st]
  /\ resp' = NoResp
  /\ UNCHANGED <<lastTerminal, scans, now, connection, client, nconn,
                 slots, tasks, startLog, lifecycleVars>>

(* ----------------- client module of startWorkflow (part_001) ------------ *)
\* getTemporalClient, first line: `if (client) return client;`
HasClient == client # NULL

\* getTemporalClient, after `await Connection.connect(...)` resolved with
\* connection c: `connection = c; client = new Client({ connection })`
Connected(c) == [ connection |-> c, client |-> c ]

\* the k-th connection that Connection.connect establishes
Conn(k) == <<"conn", k>>

NewTask(row, pc, wid) ==
  [ pc |-> pc, row |-> row, wid |-> wid, res |-> NoRes, out |-> "none" ]

\* a call that needs the client: it goes on at once when the client is
\* cached, and otherwise starts its own Connection.connect
FirstPc == IF HasClient THEN "call" ELSE "connect"

(* ------------------------------ the routes ------------------------------ *)
\* a catch branch that drops the message of the error it caught
FailedPatchNoMessage(errMsg) ==
  [ f \in {"status", "error"} |->
      IF f = "status" THEN "failed" ELSE "Failed to start workflow" ]

\* catch branch of POST /api/scans
FailedPatch(errMsg) ==
  [ f \in {"status", "error"} |->
      IF f = "status" THEN "failed" ELSE "Failed to start workflow: " \o errMsg ]

\* a success branch that stores the status and forgets the workflow id
RunningPatchNoId(workflowId) == [ f \in {"status"} |-> "running" ]

\* success branch of POST /api/scans
RunningPatch(workflowId) ==
  [ f \in {"workflowId", "status"} |->
      IF f = "workflowId" THEN workflowId ELSE "running" ]

\* a sync patch that also carries the (absent) workflow id of the report
ProgressPatchClearingId(p) ==
  [ f \in {"workflowId", "status", "currentPhase", "currentAgent",
           "completedAgents", "error", "summary"} |->
      CASE f = "workflowId" -> NULL
        [] f = "status" -> p.status
        [] f = "currentPhase" -> p.currentPhase
        [] f = "currentAgent" -> p.currentAgent
        [] f = "completedAgents" -> p.completedAgents
        [] f = "error" -> p.error
        [] OTHER -> p.summary ]

\* the patch both sync routes build from a progress report
ProgressPatch(p) ==
  [ f \in {"status", "currentPhase", "currentAgent", "completedAgents",
           "error", "summary"} |->
      CASE f = "status" -> p.status
        [] f = "currentPhase" -> p.currentPhase
        [] f = "currentAgent" -> p.currentAgent
        [] f = "completedAgents" -> p.completedAgents
        [] f = "error" -> p.error
        [] OTHER -> p.summary ]

\* a sync that treats an unanswered query as the failure of the scan
ApplySyncFailingScan(scs, id, res, t) ==
  IF res.tag = "progress" THEN updateScan(scs, id, ProgressPatch(res.p), t)
  ELSE updateScan(scs, id, FailedPatch("progress query failed"), t)

\* queryWorkflowProgress answered res; `if (!progress) return ...` keeps the
\* table as it is, a progress report is written with updateScan
ApplySync(scs, id, res, t) ==
  IF res.tag = "progress" THEN updateScan(scs, id, ProgressPatch(res.p), t)
  ELSE scs

\* a fan-out in which the first call that fails abandons the other calls
SettleTaskAbandoning(ts, i, res, out) ==
  [ j \in DOMAIN ts |->
      IF j = i THEN [ts[j] EXCEPT !.pc = "settled", !.res = res, !.out = out]
      ELSE IF out = "unavailable"
        THEN [ts[j] EXCEPT !.pc = "settled", !.out = "unavailable"]
        ELSE ts[j] ]

\* Promise.allSettled over the per-scan async functions: one call settling,
\* whatever its outcome, leaves the other calls as they are
SettleTask(ts, i, res, out) ==
  [ts EXCEPT ![i] = [@ EXCEPT !.pc = "settled", !.res = res, !.out = out]]

\* a filter that forgets the status and keeps every scan with a workflow id
RunningIdsAnyStatus(scs) ==
  { i \in DOMAIN scs : scs[i].workflow_id # NULL }

\* rows.filter(r => r.status === 'running' && r.workflow_id)
RunningIds(scs) ==
  { i \in DOMAIN scs : scs[i].status = "running" /\ scs[i].workflow_id # NULL }

\* a count of the calls that wrote a progress report only
SyncedCountApplied(ts) ==
  Cardinality({ i \in DOMAIN ts : ts[i].out = "applied" })

\* `results.length`: one settled result per call, whatever its outcome
SyncedCount(ts) == Cardinality(DOMAIN ts)

\* reply.send / return of a handler
Done(kind, id, code, body, branch) ==
  [ kind |-> kind, id |-> id, code |-> code, body |-> body, branch |-> branch ]

\* a request being handled; the connection it arrived on is open
Busy(kind, id) ==
  [ kind |-> kind, pc |-> "busy", id |-> id, socket |-> "open" ]

\* a request is served by the first handler slot that is free; the explored
\* workload overlaps requests only while the table holds at most one scan
FreeSlot(s) ==
  /\ slots[s].pc = "idle"
  /\ \A s2 \in Slots : s2 < s => slots[s2].pc = "busy"
  /\ s = 1 \/ Len(scans) <= 1

Quiet == \A s \in Slots : slots[s].pc = "idle"

\* the handler in slot s answers and ends; the handlers still in flight are
\* kept in the order in which they began
Reply(s, r) ==
  /\ resp' = [ slot |-> s, kind |-> r.kind, id |-> r.id, code |-> r.code,
               body |-> r.body, branch |-> r.branch ]
  /\ slots' = [ j \in Slots |->
                  IF j < s THEN slots[j]
                  ELSE IF j < NumSlots THEN slots[j + 1] ELSE IdleSlot ]
  /\ tasks' = [ j \in Slots |->
                  IF j < s THEN tasks[j]
                  ELSE IF j < NumSlots THEN tasks[j + 1] ELSE NoTasks ]

\* GET /api/scans: listScans().map(formatScan); the handler has no await and
\* takes no handler slot
GetList ==
  /\ \E rows \in ListOrders(scans) :
       resp' = [ slot |-> 0, kind |-> "list", id |-> 0, code |-> 200,
                 body |-> [ k \in DOMAIN rows |-> formatScan(rows[k]) ],
                 branch |-> "listed" ]
  /\ UNCHANGED <<lastTerminal, scans, now, connection, client, nconn,
                 workflows, slots, tasks, startLog, lifecycleVars>>

\* a GET /api/scans/:id that records the read in the row
GetOneTouching(id) ==
  /\ resp' = [ slot |-> 0, kind |-> "get", id |-> id,
               code |-> IF HasScan(scans, id) THEN 200 ELSE 404,
               body |-> IF HasScan(scans, id) THEN formatScan(scans[id])
                        ELSE "Scan not found",
               branch |-> IF HasScan(scans, id) THEN "found" ELSE "notfound" ]
  /\ scans' = IF HasScan(scans, id)
                THEN [scans EXCEPT ![id] = Stamp(@, now)] ELSE scans
  /\ UNCHANGED <<lastTerminal, now, connection, client, nconn,
                 workflows, slots, tasks, startLog, lifecycleVars>>

\* GET /api/scans/:id: getScan, then 404 or formatScan(row)
GetOne(id) ==
  /\ resp' = [ slot |-> 0, kind |-> "get", id |-> id,
               code |-> IF HasScan(scans, id) THEN 200 ELSE 404,
               body |-> IF HasScan(scans, id) THEN formatScan(scans[id])
                        ELSE "Scan not found",
               branch |-> IF HasScan(scans, id) THEN "found" ELSE "notfound" ]
  /\ UNCHANGED <<lastTerminal, scans, now, connection, client, nconn,
                 workflows, slots, tasks, startLog, lifecycleVars>>

\* a validation that looks at targetUrl only
MissingInputUrlOnly(targetUrl, repoPath) == targetUrl = NULL

\* `if (!targetUrl || !repoPath)`
MissingInput(targetUrl, repoPath) == targetUrl = NULL \/ repoPath = NULL

\* POST /api/scans with a missing targetUrl or repoPath: 400, nothing else
CreateInvalid(s, targetUrl, repoPath) ==
  /\ FreeSlot(s)
  /\ MissingInput(targetUrl, repoPath)
  /\ Reply(s, Done("create", 0, 400, "targetUrl and repoPath are required",
                   "invalid"))
  /\ UNCHANGED <<lastTerminal, scans, now, connection, client, nconn,
                 workflows, startLog, lifecycleVars>>

\* POST /api/scans up to the first await inside startWorkflow: createScan,
\* then getTemporalClient
CreateBegin(s, targetUrl, repoPath, configPath) ==
  /\ FreeSlot(s)
  /\ ~MissingInput(targetUrl, repoPath)
  /\ Len(scans) < MaxScans
  /\ Len(scans) >= 1 => Quiet
  /\ LET id == FreshId(scans)
         scs == createScan(scans, targetUrl, repoPath, configPath, now)
     IN /\ scans' = scs
        /\ startLog' = Append(startLog, [ state |-> "pending", wid |-> NULL,
                                          msg |-> NULL ])
        /\ lastTerminal' = Append(lastTerminal, <<>>)
        /\ slots' = [slots EXCEPT ![s] = Busy("create", id)]
        /\ tasks' = [tasks EXCEPT ![s] =
             [ i \in {id} |->
                 NewTask(scs[id], FirstPc,
                         IF HasClient THEN WorkflowIdOf(targetUrl, now)
                         ELSE NULL) ]]
  /\ resp' = NoResp
  /\ UNCHANGED <<now, connection, client, nconn, workflows, lifecycleVars>>

\* a catch branch that answers 500 and leaves the record as it is
CreateFailedUnmarked(s, id, scs, errMsg) ==
  /\ scans' = scs
  /\ Reply(s, Done("create", id, 500, formatScan(scs[id]), "failed"))

\* the create handler after startWorkflow threw errMsg, or after its own
\* updateScan threw: mark the scan failed and answer 500
CreateFailed(s, id, scs, errMsg) ==
  LET upd == updateScan(scs, id, FailedPatch(errMsg), now)
  IN /\ scans' = upd
     /\ Reply(s, Done("create", id, 500, formatScan(upd[id]), "failed"))

\* Connection.connect of a call resolves: the client is cached and the call
\* goes on (startWorkflow derives its workflow id now)
ConnectOk(s, i) ==
  /\ i \in DOMAIN tasks[s]
  /\ tasks[s][i].pc = "connect"
  /\ nconn' = nconn + 1
  /\ connection' = Connected(Conn(nconn + 1)).connection
  /\ client' = Connected(Conn(nconn + 1)).client
  /\ tasks' = [tasks EXCEPT ![s][i] =
       [@ EXCEPT !.pc = "call",
                 !.wid = IF slots[s].kind = "create"
                           THEN WorkflowIdOf(tasks[s][i].row.target_url, now)
                           ELSE tasks[s][i].row.workflow_id]]
  /\ resp' = NoResp
  /\ UNCHANGED <<lastTerminal, scans, now, workflows, slots,
                 startLog, lifecycleVars>>

\* Connection.connect of a call rejects
ConnectFail(s, i) ==
  /\ i \in DOMAIN tasks[s]
  /\ tasks[s][i].pc = "connect"
  /\ IF slots[s].kind = "create"
       THEN /\ CreateFailed(s, i, scans, CONNECT_MSG)
            /\ startLog' = [startLog EXCEPT ![i] =
                 [ state |-> "failed", wid |-> NULL, msg |-> CONNECT_MSG ]]
       ELSE /\ scans' = ApplySync(scans, i, [tag |-> "connfail"], now)
            /\ startLog' = startLog
            /\ IF slots[s].kind = "syncOne"
                 THEN Reply(s, Done("syncOne", i, 200,
                                    formatScan(tasks[s][i].row), "unavailable"))
                 ELSE /\ tasks' = [tasks EXCEPT ![s] =
                            SettleTask(@, i, [tag |-> "connfail"], "unavailable")]
                      /\ slots' = slots
                      /\ resp' = NoResp
  /\ UNCHANGED <<lastTerminal, now, connection, client, nconn, workflows,
                 lifecycleVars>>

\* temporal.workflow.start is accepted (a workflow id can be started again
\* only once its previous run is closed); the handler then stores the id
SubmitOk(s, i) ==
  /\ i \in DOMAIN tasks[s]
  /\ slots[s].kind = "create"
  /\ tasks[s][i].pc = "call"
  /\ LET w == tasks[s][i].wid
     IN /\ w \in DOMAIN workflows => workflows[w] \in {"completed", "failed"}
        /\ workflows' = (w :> "running") @@ workflows
        /\ startLog' = [startLog EXCEPT ![i] =
             [ state |-> "ok", wid |-> w, msg |-> NULL ]]
        /\ IF UniqueViolation(scans, i, RunningPatch(w))
             THEN CreateFailed(s, i, scans, UNIQUE_MSG)
             ELSE LET upd == updateScan(scans, i, RunningPatch(w), now)
                  IN /\ scans' = upd
                     /\ Reply(s, Done("create", i, 201, formatScan(upd[i]),
                                      "started"))
  /\ UNCHANGED <<lastTerminal, now, connection, client, nconn,
                 lifecycleVars>>

\* temporal.workflow.start rejects
SubmitFail(s, i) ==
  /\ i \in DOMAIN tasks[s]
  /\ slots[s].kind = "create"
  /\ tasks[s][i].pc = "call"
  /\ CreateFailed(s, i, scans, START_MSG)
  /\ startLog' = [startLog EXCEPT ![i] =
       [ state |-> "failed", wid |-> NULL, msg |-> START_MSG ]]
  /\ UNCHANGED <<lastTerminal, now, connection, client, nconn, workflows,
                 lifecycleVars>>

\* a syncOne without the `if (!row.workflow_id)` return
HasWorkflowAlways(row) == TRUE

\* `row.workflow_id` is set
HasWorkflow(row) == row.workflow_id # NULL

\* POST /api/scans/:id/sync answered without the orchestrator: unknown id,
\* no workflow id yet, or a completed / failed scan
SyncOneLocal(s, id) ==
  /\ FreeSlot(s)
  /\ \/ /\ ~HasScan(scans, id)
        /\ Reply(s, Done("syncOne", id, 404, "Scan not found", "notfound"))
        /\ lastTerminal' = lastTerminal
     \/ /\ HasScan(scans, id)
        /\ ~HasWorkflow(scans[id])
        /\ Reply(s, Done("syncOne", id, 200, formatScan(scans[id]), "nowf"))
        /\ lastTerminal' =
             IF scans[id].status \in {"completed", "failed"}
               THEN [lastTerminal EXCEPT ![id] = <<formatScan(scans[id])>>]
               ELSE lastTerminal
     \/ /\ HasScan(scans, id)
        /\ HasWorkflow(scans[id])
        /\ scans[id].status \in {"completed", "failed"}
        /\ Reply(s, Done("syncOne", id, 200, formatScan(scans[id]), "terminal"))
        /\ lastTerminal' = [lastTerminal EXCEPT ![id] = <<formatScan(scans[id])>>]
  /\ UNCHANGED <<scans, now, connection, client, nconn, workflows, startLog,
                 lifecycleVars>>

\* POST /api/scans/:id/sync up to the first await of queryWorkflowProgress
SyncOneBegin(s, id) ==
  /\ FreeSlot(s)
  /\ HasScan(scans, id)
  /\ HasWorkflow(scans[id])
  /\ scans[id].status \notin {"completed", "failed"}
  /\ slots' = [slots EXCEPT ![s] = Busy("syncOne", id)]
  /\ tasks' = [tasks EXCEPT ![s] =
       [ i \in {id} |-> NewTask(scans[id], FirstPc, scans[id].workflow_id) ]]
  /\ resp' = NoResp
  /\ UNCHANGED <<lastTerminal, scans, now, connection, client, nconn,
                 workflows, startLog, lifecycleVars>>

\* POST /api/scans/sync up to the awaits: list, filter, and one
\* queryWorkflowProgress call per running scan, all issued at once
SyncAllBegin(s) ==
  /\ FreeSlot(s)
  /\ LET running == RunningIds(scans)
     IN /\ running # {}
        /\ slots' = [slots EXCEPT ![s] = Busy("syncAll", 0)]
        /\ tasks' = [tasks EXCEPT ![s] =
             [ i \in running |->
                 NewTask(scans[i], FirstPc, scans[i].workflow_id) ]]
  /\ resp' = NoResp
  /\ UNCHANGED <<lastTerminal, scans, now, connection, client, nconn,
                 workflows, startLog, lifecycleVars>>

\* POST /api/scans/sync when no scan is running: Promise.allSettled([])
SyncAllEmpty(s) ==
  /\ FreeSlot(s)
  /\ RunningIds(scans) = {}
  /\ Reply(s, Done("syncAll", 0, 200, SyncedCount(NoTasks), "synced"))
  /\ UNCHANGED <<lastTerminal, scans, now, connection, client, nconn,
                 workflows, startLog, lifecycleVars>>

\* the orchestrator answers a getProgress query with the progress of the
\* workflow at this instant
QueryAnswer(s, i) ==
  /\ i \in DOMAIN tasks[s]
  /\ slots[s].kind \in {"syncOne", "syncAll"}
  /\ tasks[s][i].pc = "call"
  /\ tasks[s][i].wid \in DOMAIN workflows
  /\ tasks' = [tasks EXCEPT ![s][i] =
       [@ EXCEPT !.pc = "answered",
                 !.res = [ tag |-> "progress",
                           p |-> ProgressAt(workflows[tasks[s][i].wid]) ]]]
  /\ resp' = NoResp
  /\ UNCHANGED <<lastTerminal, scans, now, connection, client, nconn,
                 workflows, slots, startLog, lifecycleVars>>

\* a sync that submits the workflow again when its query raises
QueryRaiseRestarting(s, i) ==
  /\ i \in DOMAIN tasks[s]
  /\ slots[s].kind \in {"syncOne", "syncAll"}
  /\ tasks[s][i].pc = "call"
  /\ tasks' = [tasks EXCEPT ![s][i] =
       [@ EXCEPT !.pc = "answered", !.res = [ tag |-> "raise" ]]]
  /\ workflows' = IF tasks[s][i].wid \in DOMAIN workflows
                    THEN [workflows EXCEPT ![tasks[s][i].wid] = "running"]
                    ELSE workflows
  /\ resp' = NoResp
  /\ UNCHANGED <<lastTerminal, scans, now, connection, client, nconn,
                 slots, startLog, lifecycleVars>>

\* the query raises (transient failure, workflow unable to answer)
QueryRaise(s, i) ==
  /\ i \in DOMAIN tasks[s]
  /\ slots[s].kind \in {"syncOne", "syncAll"}
  /\ tasks[s][i].pc = "call"
  /\ tasks' = [tasks EXCEPT ![s][i] =
       [@ EXCEPT !.pc = "answered", !.res = [ tag |-> "raise" ]]]
  /\ resp' = NoResp
  /\ UNCHANGED <<lastTerminal, scans, now, connection, client, nconn,
                 workflows, slots, startLog, lifecycleVars>>

\* the sync handler goes on with what queryWorkflowProgress returned
SyncResume(s, i) ==
  /\ i \in DOMAIN tasks[s]
  /\ tasks[s][i].pc = "answered"
  /\ LET res == tasks[s][i].res
         upd == ApplySync(scans, i, res, now)
         out == IF res.tag = "progress" THEN "applied" ELSE "unavailable"
     IN /\ scans' = upd
        /\ IF slots[s].kind = "syncOne"
             THEN Reply(s, Done("syncOne", i, 200,
                                IF res.tag = "progress" THEN formatScan(upd[i])
                                ELSE formatScan(tasks[s][i].row),
                                out))
             ELSE /\ tasks' = [tasks EXCEPT ![s] = SettleTask(@, i, res, out)]
                  /\ slots' = slots
                  /\ resp' = NoResp
  /\ UNCHANGED <<lastTerminal, now, connection, client, nconn, workflows,
                 startLog, lifecycleVars>>

\* Promise.any: resolves with the first call that settles
AnySettled(ts) == \E i \in DOMAIN ts : ts[i].pc = "settled"

\* Promise.allSettled resolves once every call has settled
AllSettled(ts) == \A i \in DOMAIN ts : ts[i].pc = "settled"

\* POST /api/scans/sync returns { synced: results.length }
SyncAllReturn(s) ==
  /\ slots[s].kind = "syncAll"
  /\ slots[s].pc = "busy"
  /\ AllSettled(tasks[s])
  /\ Reply(s, Done("syncAll", 0, 200, SyncedCount(tasks[s]), "synced"))
  /\ UNCHANGED <<lastTerminal, scans, now, connection, client, nconn,
                 workflows, startLog, lifecycleVars>>

\* graceful shutdown (server.close, then closeTemporalConnection and
\* process.exit) followed by a new start of the server: the table is kept
\* on disk, the module variables of the client start again from null
Restart ==
  /\ Quiet
  /\ connection # NULL
  /\ connection' = NULL
  /\ client' = NULL
  /\ nconn' = 0
  /\ resp' = NoResp
  /\ UNCHANGED <<scans, now, workflows, slots, tasks, startLog,
                 lastTerminal, lifecycleVars>>

Inputs(S) == S \cup {NULL}

Next ==
  \/ Tick
  \/ Restart
  \/ \E w \in DOMAIN workflows : WorkflowAdvance(w)
  \/ \E s \in Slots, u \in Inputs(Urls), r \in Inputs(Repos) :
       CreateInvalid(s, u, r)
  \/ \E s \in Slots, u \in Inputs(Urls), r \in Inputs(Repos), c \in Configs :
       CreateBegin(s, u, r, c)
  \/ \E s \in Slots, i \in ScanIds : ConnectOk(s, i)
  \/ \E s \in Slots, i \in ScanIds : ConnectFail(s, i)
  \/ \E s \in Slots, i \in ScanIds : SubmitOk(s, i)
  \/ \E s \in Slots, i \in ScanIds : SubmitFail(s, i)
  \/ \E s \in Slots, i \in 1..(MaxScans + 1) : SyncOneLocal(s, i)
  \/ \E s \in Slots, i \in ScanIds : SyncOneBegin(s, i)
  \/ \E s \in Slots : SyncAllBegin(s)
  \/ \E s \in Slots : SyncAllEmpty(s)
  \/ \E s \in Slots, i \in ScanIds : QueryAnswer(s, i)
  \/ \E s \in Slots, i \in ScanIds : QueryRaise(s, i)
  \/ \E s \in Slots, i \in ScanIds : SyncResume(s, i)
  \/ \E s \in Slots : SyncAllReturn(s)

Spec == Init /\ [][Next]_vars

\* the read routes GET /api/scans and GET /api/scans/:id next to create
\* requests, which take the client through all its states
NextRead ==
  \/ Tick
  \/ Restart
  \/ GetList
  \/ \E i \in 1..(MaxScans + 1) : GetOne(i)
  \/ \E s \in Slots, u \in Inputs(Urls), r \in Inputs(Repos), c \in Configs :
       CreateBegin(s, u, r, c)
  \/ \E s \in Slots, i \in ScanIds : ConnectOk(s, i)
  \/ \E s \in Slots, i \in ScanIds : ConnectFail(s, i)
  \/ \E s \in Slots, i \in ScanIds : SubmitOk(s, i)
  \/ \E s \in Slots, i \in ScanIds : SubmitFail(s, i)

SpecRead == Init /\ [][NextRead]_vars

\* create and syncAll requests under fair scheduling: every Connection.connect,
\* workflow.start and query call in flight is settled at some time, and the
\* event loop runs every continuation that is ready
NextLive ==
  \/ Tick
  \/ Restart
  \/ \E w \in DOMAIN workflows : WorkflowAdvance(w)
  \/ \E s \in Slots, u \in Inputs(Urls), r \in Inputs(Repos), c \in Configs :
       CreateBegin(s, u, r, c)
  \/ \E s \in Slots, i \in ScanIds : ConnectOk(s, i)
  \/ \E s \in Slots, i \in ScanIds : ConnectFail(s, i)
  \/ \E s \in Slots, i \in ScanIds : SubmitOk(s, i)
  \/ \E s \in Slots, i \in ScanIds : SubmitFail(s, i)
  \/ \E s \in Slots : SyncAllBegin(s)
  \/ \E s \in Slots : SyncAllEmpty(s)
  \/ \E s \in Slots, i \in ScanIds : QueryAnswer(s, i)
  \/ \E s \in Slots, i \in ScanIds : QueryRaise(s, i)
  \/ \E s \in Slots, i \in ScanIds : SyncResume(s, i)
  \/ \E s \in Slots : SyncAllReturn(s)

Fairness ==
  /\ \A s \in Slots, i \in ScanIds :
       /\ WF_vars(ConnectOk(s, i) \/ ConnectFail(s, i))
       /\ WF_vars(SubmitOk(s, i) \/ SubmitFail(s, i))
       /\ WF_vars(QueryAnswer(s, i) \/ QueryRaise(s, i))
       /\ WF_vars(SyncResume(s, i))
  /\ \A s \in Slots : WF_vars(SyncAllReturn(s))

SpecLive == Init /\ [][NextLive]_vars /\ Fairness

(* ------------- connection life cycle of temporal-client.ts -------------- *)
\* the promise stored in `connecting` by the k-th Connection.connect call
Attempt(k) == <<"attempt", k>>
AttemptNo(a) == a[2]

\* a failure path without the `finally`: the rejected promise stays cached
OnConnectFailureKeepsAttempt(att) ==
  [ connection |-> NULL, client |-> NULL, connecting |-> att ]

\* catch + finally of the connecting promise: `connection = null;
\* client = null; throw error;` then `connecting = null`
OnConnectFailure(att) ==
  [ connection |-> NULL, client |-> NULL, connecting |-> NULL ]

\* a success path without the `finally`: the resolved promise stays cached
OnConnectSuccessKeepsAttempt(c) ==
  [ connection |-> c, client |-> c, connecting |-> Attempt(c[2]) ]

\* try + finally of the connecting promise: `connection = c; client = new
\* Client({ connection }); return client;` then `connecting = null`
OnConnectSuccess(c) ==
  [ connection |-> c, client |-> c, connecting |-> NULL ]

CallerFree(c) == callers[c].pc # "await"

\* a lookup that never finds the cached client
CacheHitNever == FALSE

\* `if (client) return client;`
CacheHit == client # NULL

\* a close that forgets `client = null`
OnClosedKeepsClient == [ connection |-> NULL, client |-> client ]

\* closeTemporalConnection after `await connection.close()`:
\* `connection = null; client = null;`
OnClosed == [ connection |-> NULL, client |-> NULL ]

\* getTemporalClient with a cached client: `if (client) return client;`
GetCached(c) ==
  /\ CallerFree(c)
  /\ CacheHit
  /\ callers' = [callers EXCEPT ![c] = [pc |-> "got", att |-> 0, got |-> client]]
  /\ UNCHANGED <<routeVars, server, connection, client, connecting, nconn,
                 attempts, open, closers>>

\* getTemporalClient while an attempt is in flight: `if (connecting) return
\* connecting;`
GetJoin(c) ==
  /\ CallerFree(c)
  /\ ~CacheHit
  /\ connecting # NULL
  /\ callers' = [callers EXCEPT ![c] =
       [pc |-> "await", att |-> AttemptNo(connecting), got |-> NULL]]
  /\ UNCHANGED <<routeVars, server, connection, client, connecting, nconn,
                 attempts, open, closers>>

\* getTemporalClient with nothing cached: `connecting = (async () => {...})()`
\* runs up to `await Connection.connect(...)`
GetConnect(c) ==
  /\ CallerFree(c)
  /\ ~CacheHit
  /\ connecting = NULL
  /\ Len(attempts) < MaxConn
  /\ attempts' = Append(attempts, "pending")
  /\ connecting' = Attempt(Len(attempts) + 1)
  /\ callers' = [callers EXCEPT ![c] =
       [pc |-> "await", att |-> Len(attempts) + 1, got |-> NULL]]
  /\ UNCHANGED <<routeVars, server, connection, client, nconn, open, closers>>

\* Connection.connect of attempt k resolves
AttemptOk(k) ==
  /\ k \in DOMAIN attempts
  /\ attempts[k] = "pending"
  /\ attempts' = [attempts EXCEPT ![k] = "ok"]
  /\ open' = open \cup {Conn(k)}
  /\ connection' = OnConnectSuccess(Conn(k)).connection
  /\ client' = OnConnectSuccess(Conn(k)).client
  /\ connecting' = OnConnectSuccess(Conn(k)).connecting
  /\ UNCHANGED <<routeVars, server, nconn, callers, closers>>

\* Connection.connect of attempt k rejects
AttemptFail(k) ==
  /\ k \in DOMAIN attempts
  /\ attempts[k] = "pending"
  /\ attempts' = [attempts EXCEPT ![k] = "failed"]
  /\ connection' = OnConnectFailure(Attempt(k)).connection
  /\ client' = OnConnectFailure(Attempt(k)).client
  /\ connecting' = OnConnectFailure(Attempt(k)).connecting
  /\ UNCHANGED <<routeVars, server, nconn, open, callers, closers>>

\* a caller awaiting a settled attempt goes on with that attempt's outcome
CallerResume(c) ==
  /\ callers[c].pc = "await"
  /\ attempts[callers[c].att] # "pending"
  /\ callers' = [callers EXCEPT ![c] =
       IF attempts[callers[c].att] = "ok"
         THEN [pc |-> "got", att |-> @.att, got |-> Conn(@.att)]
         ELSE [pc |-> "failed", att |-> @.att, got |-> NULL]]
  /\ UNCHANGED <<routeVars, server, connection, client, connecting, nconn,
                 attempts, open, closers>>

\* closeTemporalConnection up to `await connection.close()`, or all of it
\* when no connection is cached
CloseBegin(z) ==
  /\ closers[z].pc # "closing"
  /\ closers' = [closers EXCEPT ![z] =
       IF connection # NULL THEN [pc |-> "closing", conn |-> connection]
       ELSE [pc |-> "returned", conn |-> NULL]]
  /\ UNCHANGED <<routeVars, server, connection, client, connecting, nconn,
                 attempts, open, callers>>

\* connection.close() resolved: `connection = null; client = null;`
CloseFinish(z) ==
  /\ closers[z].pc = "closing"
  /\ open' = open \ {closers[z].conn}
  /\ connection' = OnClosed.connection
  /\ client' = OnClosed.client
  /\ closers' = [closers EXCEPT ![z] = [pc |-> "returned", conn |-> NULL]]
  /\ UNCHANGED <<routeVars, server, connecting, nconn, attempts, callers>>

NextClient ==
  \/ \E c \in 1..MaxCallers : GetCached(c)
  \/ \E c \in 1..MaxCallers : GetJoin(c)
  \/ \E c \in 1..MaxCallers : GetConnect(c)
  \/ \E k \in 1..MaxConn : AttemptOk(k)
  \/ \E k \in 1..MaxConn : AttemptFail(k)
  \/ \E c \in 1..MaxCallers : CallerResume(c)
  \/ \E z \in 1..MaxClosers : CloseBegin(z)
  \/ \E z \in 1..MaxClosers : CloseFinish(z)

SpecClient == Init /\ [][NextClient]_vars

\* the client module at shutdown: closeTemporalConnection is the last
\* operation invoked (server.ts calls it when the server has closed, and
\* exits); the calls made before it may still have an attempt in flight
NoCloseYet == \A z \in 1..MaxClosers : closers[z].pc = "idle"

NextClose ==
  \/ \E c \in 1..MaxCallers : NoCloseYet /\ GetCached(c)
  \/ \E c \in 1..MaxCallers : NoCloseYet /\ GetJoin(c)
  \/ \E c \in 1..MaxCallers : NoCloseYet /\ GetConnect(c)
  \/ \E k \in 1..MaxConn : AttemptOk(k)
  \/ \E k \in 1..MaxConn : AttemptFail(k)
  \/ \E c \in 1..MaxCallers : CallerResume(c)
  \/ \E z \in 1..MaxClosers : CloseBegin(z)
  \/ \E z \in 1..MaxClosers : CloseFinish(z)

SpecClose == Init /\ [][NextClose]_vars

(* ------------------------------ shutdown ------------------------------- *)
\* the client of a request in flight drops its connection (it gives up
\* waiting, or is gone); the handler goes on, its answer will reach no one
ClientGone(s) ==
  /\ slots[s].pc = "busy"
  /\ slots[s].socket = "open"
  /\ slots' = [slots EXCEPT ![s].socket = "closed"]
  /\ resp' = NoResp
  /\ UNCHANGED <<lastTerminal, scans, now, connection, client, nconn,
                 workflows, tasks, startLog, lifecycleVars>>

\* SIGINT / SIGTERM: shutdown() calls server.close(callback); the server
\* stops accepting connections at once
Shutdown ==
  /\ server = "listening"
  /\ server' = "draining"
  /\ resp' = NoResp
  /\ UNCHANGED <<lastTerminal, scans, now, workflows, slots, tasks, startLog,
                 connection, client, nconn, connecting,
                 attempts, open, callers, closers>>

\* the server holds no open connection: a connection ends when its response
\* has been sent or when its client has dropped it
NoSocketOpen == \A s \in Slots : slots[s].socket # "open"

\* the callback of server.close runs (http.Server emits 'close' once it has
\* stopped listening and its last connection has ended): it calls
\* closeTemporalConnection, which awaits connection.close() when a
\* connection is cached and otherwise returns, and then process.exit(0)
ServerClosed ==
  /\ server = "draining"
  /\ NoSocketOpen
  /\ server' = IF connection # NULL THEN "closing" ELSE "exited"
  /\ resp' = NoResp
  /\ UNCHANGED <<lastTerminal, scans, now, workflows, slots, tasks, startLog,
                 connection, client, nconn, connecting, attempts, open,
                 callers, closers>>

\* connection.close() resolved: `connection = null; client = null;`, then
\* process.exit(0)
ShutdownExit ==
  /\ server = "closing"
  /\ connection' = OnClosed.connection
  /\ client' = OnClosed.client
  /\ server' = "exited"
  /\ resp' = NoResp
  /\ UNCHANGED <<lastTerminal, scans, now, workflows, slots, tasks, startLog,
                 nconn, connecting, attempts, open, callers, closers>>

\* requests are accepted while the server listens; handlers in flight run
\* until the process exits
Accepting == server = "listening"
Alive == server # "exited"

NextShutdown ==
  \/ Shutdown
  \/ ServerClosed
  \/ ShutdownExit
  \/ \E s \in Slots : Alive /\ ClientGone(s)
  \/ \E s \in Slots, u \in Urls, r \in Repos, c \in Configs :
       Accepting /\ CreateBegin(s, u, r, c)
  \/ \E s \in Slots, i \in ScanIds : Accepting /\ SyncOneBegin(s, i)
  \/ \E s \in Slots, i \in ScanIds : Alive /\ ConnectOk(s, i)
  \/ \E s \in Slots, i \in ScanIds : Alive /\ ConnectFail(s, i)
  \/ \E s \in Slots, i \in ScanIds : Alive /\ SubmitOk(s, i)
  \/ \E s \in Slots, i \in ScanIds : Alive /\ SubmitFail(s, i)
  \/ \E s \in Slots, i \in ScanIds : Alive /\ QueryAnswer(s, i)
  \/ \E s \in Slots, i \in ScanIds : Alive /\ QueryRaise(s, i)
  \/ \E s \in Slots, i \in ScanIds : Alive /\ SyncResume(s, i)

SpecShutdown == Init /\ [][NextShutdown]_vars

(* ------------------------- the store on its own -------------------------- *)
\* createScan, updateScan and getScan called directly, as the store's tests
\* do, with the patches below
EmptyPatch == [ f \in {} |-> NULL ]

\* db.test.ts 'should update error field'
ErrorPatch ==
  [ f \in {"status", "error"} |->
      IF f = "status" THEN "failed" ELSE "Connection refused" ]

\* a patch that clears the summary
NoSummaryPatch == [ f \in {"summary"} |-> NULL ]

\* db.test.ts 'should create a scan with configPath', and configPath absent
StoreConfigs == {NULL, "./configs/test.yaml"}

StorePatches ==
  { EmptyPatch, ErrorPatch, NoSummaryPatch, RunningPatch("wf-123"),
    ProgressPatch(ProgressAt("completed")) }

StoreResp(kind, id, body, branch) ==
  [ slot |-> 0, kind |-> kind, id |-> id, code |-> 0, body |-> body,
    branch |-> branch ]

\* createScan(input): INSERT, then `return getScan(id)!`; the explored calls
\* pass a configPath only to the first record of the table
StoreCreate(targetUrl, repoPath, configPath) ==
  /\ Len(scans) < MaxScans
  /\ configPath # NULL => Len(scans) = 0
  /\ LET scs == createScan(scans, targetUrl, repoPath, configPath, now)
     IN /\ scans' = scs
        /\ resp' = StoreResp("createScan", FreshId(scans),
                             getScan(scs, FreshId(scans)), "returned")
  /\ UNCHANGED <<now, workflows, slots, tasks, startLog, lastTerminal, nconn,
                 connection, client, lifecycleVars>>

\* updateScan(id, input): returns getScan(id), or throws when the UPDATE is
\* rejected by the UNIQUE constraint
StoreUpdate(id, patch) ==
  /\ LET scs == updateScan(scans, id, patch, now)
     IN /\ scans' = scs
        /\ resp' = IF UniqueViolation(scans, id, patch)
                     THEN StoreResp("updateScan", id, <<>>, "throws")
                     ELSE StoreResp("updateScan", id, getScan(scs, id),
                                    "returned")
  /\ UNCHANGED <<now, workflows, slots, tasks, startLog, lastTerminal, nconn,
                 connection, client, lifecycleVars>>

NextStore ==
  \/ Tick
  \/ \E u \in Urls, r \in Repos, c \in StoreConfigs : StoreCreate(u, r, c)
  \/ \E id \in ScanIds, patch \in StorePatches : StoreUpdate(id, patch)

SpecStore == Init /\ [][NextStore]_vars

(* ------------------------------- lookups --------------------------------- *)
\* getScan, getScanByWorkflowId, listScans, updateScan and the syncOne of an
\* id that is not stored, over tables built by createScan and by the update
\* that stores a workflow id
LookupIds == 1..(MaxScans + 1)
LookupWorkflowIds == {"wf-123", "non-existent-wf"}

StoreGet(id) ==
  /\ resp' = StoreResp("getScan", id, getScan(scans, id), "returned")
  /\ UNCHANGED <<scans, now, workflows, slots, tasks, startLog, lastTerminal,
                 nconn, connection, client, lifecycleVars>>

StoreGetByWorkflowId(workflowId) ==
  /\ resp' = StoreResp("getScanByWorkflowId", 0,
                       getScanByWorkflowId(scans, workflowId), "returned")
  /\ UNCHANGED <<scans, now, workflows, slots, tasks, startLog, lastTerminal,
                 nconn, connection, client, lifecycleVars>>

StoreList ==
  /\ \E rows \in ListOrders(scans) :
       resp' = StoreResp("listScans", 0, rows, "returned")
  /\ UNCHANGED <<scans, now, workflows, slots, tasks, startLog, lastTerminal,
                 nconn, connection, client, lifecycleVars>>

NextLookup ==
  \/ Tick
  \/ \E u \in Urls, r \in Repos, c \in Configs : StoreCreate(u, r, c)
  \/ \E id \in ScanIds, patch \in StorePatches :
       /\ HasScan(scans, id) => patch = RunningPatch("wf-123")
       /\ StoreUpdate(id, patch)
  \/ \E id \in LookupIds : StoreGet(id)
  \/ \E w \in LookupWorkflowIds : StoreGetByWorkflowId(w)
  \/ StoreList
  \/ \E id \in LookupIds : ~HasScan(scans, id) /\ SyncOneLocal(1, id)

SpecLookup == Init /\ [][NextLookup]_vars

(* ======================= properties of the routes ======================= *)
Terminal == {"completed", "failed"}

\* the public record rec shows exactly the values of the progress report p
Shows(rec, p) ==
  /\ rec.status = p.status
  /\ rec.currentPhase = p.currentPhase
  /\ rec.currentAgent = p.currentAgent
  /\ rec.completedAgents = p.completedAgents
  /\ rec.error = p.error
  /\ rec.summary = p.summary

TaskKeys == { <<s, i>> \in Slots \X ScanIds : i \in DOMAIN tasks[s] }

\* the call <<s, i>> ends in this step: its handler answers (syncOne), or
\* the call settles inside a syncAll that goes on
Ends(s, i) ==
  /\ i \in DOMAIN tasks[s]
  /\ tasks[s][i].pc # "settled"
  /\ \/ resp'.slot = s
     \/ /\ resp' = NoResp
        /\ i \in DOMAIN tasks'[s]
        /\ tasks'[s][i].pc = "settled"

(* C1: callers that need the client while none is cached share one connection
   attempt: at no time are two Connection.connect attempts in flight. *)
C1_OneConnectAttempt ==
  Cardinality({ k \in TaskKeys : tasks[k[1]][k[2]].pc = "connect" }) <= 1

(* C2: the status of a scan changes only along pending->running,
   pending->failed, running->completed, running->failed; a completed or failed
   scan never changes status. *)
AllowedStatusSteps ==
  { <<"pending", "running">>, <<"pending", "failed">>,
    <<"running", "completed">>, <<"running", "failed">> }

C2_StatusTransitions ==
  [][ \A i \in DOMAIN scans :
        \/ scans'[i].status = scans[i].status
        \/ <<scans[i].status, scans'[i].status>> \in AllowedStatusSteps ]_vars

(* C3: once a scan is completed or failed, no later step changes any field of
   its record, updatedAt included. *)
C3_TerminalImmutable ==
  [][ \A i \in DOMAIN scans :
        scans[i].status \in Terminal => scans'[i] = scans[i] ]_vars

(* C4: a syncOne call on a completed or failed scan issues no progress query,
   leaves the table unchanged and returns the stored record, and every such
   call on the scan returns the same record as the one before it. *)
C4_TerminalSyncIdempotent ==
  [][ /\ \A s \in Slots :
           (slots[s].pc = "idle" /\ slots'[s].kind = "syncOne")
             => scans[slots'[s].id].status \notin Terminal
      /\ \A i \in DOMAIN scans :
           ( /\ scans[i].status \in Terminal
             /\ resp'.kind = "syncOne" /\ resp'.id = i
             /\ resp'.branch \in {"nowf", "terminal"} )
             => /\ scans' = scans
                /\ tasks' = tasks
                /\ resp'.body = formatScan(scans[i])
                /\ lastTerminal[i] # <<>> => resp'.body = lastTerminal[i][1]
    ]_vars

(* C5: in syncAll a call is given up only because its own query failed, never
   because the call for another scan failed, and a progress report that
   arrives for a scan is written to that scan's record. *)
C5_SyncAllIsolation ==
  /\ [](\A s \in Slots : slots[s].kind = "syncAll" =>
          \A i \in DOMAIN tasks[s] :
            tasks[s][i].pc = "settled" =>
              \/ tasks[s][i].out = "applied" /\ tasks[s][i].res.tag = "progress"
              \/ /\ tasks[s][i].out = "unavailable"
                 /\ tasks[s][i].res.tag \in {"raise", "connfail"})
  /\ [][ \A s \in Slots : \A i \in DOMAIN tasks[s] :
           ( /\ slots[s].kind = "syncAll"
             /\ tasks[s][i].pc = "answered"
             /\ tasks[s][i].res.tag = "progress"
             /\ Ends(s, i) )
             => Shows(formatScan(scans'[i]), tasks[s][i].res.p) ]_vars

C5_Witness ==
  \E s \in Slots :
    /\ slots[s].kind = "syncAll"
    /\ \E i, j \in DOMAIN tasks[s] :
         /\ tasks[s][i].pc = "settled" /\ tasks[s][i].out = "unavailable"
         /\ tasks[s][j].pc = "settled" /\ tasks[s][j].out = "applied"
         /\ Shows(formatScan(scans[j]), tasks[s][j].res.p)

(* C7: a scan whose startWorkflow call failed has status failed, an error that
   contains the message of the failure, and no workflow id; its record stays in
   the table. *)
C7_StartFailureMarksFailed ==
  /\ Len(scans) = Len(startLog)
  /\ \A i \in DOMAIN startLog :
       startLog[i].state = "failed" =>
         /\ scans[i].status = "failed"
         /\ Contains(scans[i].error, startLog[i].msg)
         /\ scans[i].workflow_id = NULL

C7_Witness ==
  \E i \in DOMAIN startLog :
    /\ startLog[i].state = "failed"
    /\ scans[i].status = "failed"
    /\ resp.kind = "create" /\ resp.code = 500 /\ resp.id = i

(* C8: when startWorkflow succeeds with identifier w, the scan goes from
   pending to running and gets workflowId w in the same update; no record is
   ever running without a workflowId, or pending with one. *)
C8_StartRunsScanAtomically ==
  /\ [](\A i \in DOMAIN scans :
          /\ scans[i].status = "running" => scans[i].workflow_id # NULL
          /\ scans[i].workflow_id # NULL => scans[i].status # "pending")
  /\ [][ \A i \in DOMAIN startLog :
           (startLog[i].state = "pending" /\ startLog'[i].state = "ok")
             => /\ scans[i].status = "pending"
                /\ scans'[i].status = "running"
                /\ scans'[i].workflow_id = startLog'[i].wid ]_vars

(* C9: a progress query that cannot be answered (no connection, query raises)
   is not an error of the sync: the table stays as it is, the scan is not
   marked failed, and syncOne answers with the record it read. *)
QueryFails(s, i) ==
  /\ i \in DOMAIN tasks[s]
  /\ slots[s].kind \in {"syncOne", "syncAll"}
  /\ \/ tasks[s][i].pc = "connect" /\ Ends(s, i)
     \/ /\ tasks[s][i].pc = "answered" /\ tasks[s][i].res.tag = "raise"
        /\ Ends(s, i)

C9_QueryFailureSkipped ==
  [][ \A s \in Slots : \A i \in ScanIds :
        QueryFails(s, i) =>
          /\ scans' = scans
          /\ slots[s].kind = "syncOne" =>
               /\ resp'.code = 200
               /\ resp'.body = formatScan(tasks[s][i].row) ]_vars

C9_Witness ==
  /\ resp.kind = "syncOne" /\ resp.branch = "unavailable"
  /\ scans[resp.id].status = "running"

(* C10: when syncOne receives a progress report, the status, currentPhase,
   currentAgent, completedAgents, error and summary of the scan become the
   values of the report (a null overwrites, completedAgents is replaced) and
   the record returned is the record now stored. *)
C10_ProgressOverwrites ==
  [][ \A s \in Slots : \A i \in ScanIds :
        ( /\ i \in DOMAIN tasks[s]
          /\ slots[s].kind = "syncOne"
          /\ tasks[s][i].pc = "answered"
          /\ tasks[s][i].res.tag = "progress"
          /\ Ends(s, i) )
          => /\ Shows(formatScan(scans'[i]), tasks[s][i].res.p)
             /\ scans'[i].completed_agents =
                  StringifyAgents(tasks[s][i].res.p.completedAgents)
             /\ resp'.body = formatScan(scans'[i])
             /\ resp'.code = 200 ]_vars

C10_Witness ==
  /\ resp.kind = "syncOne" /\ resp.branch = "applied"
  /\ resp.body.status = "completed"
  /\ resp.body.currentPhase = NULL
  /\ resp.body.completedAgents = <<"pre-recon", "recon">>
  /\ resp.body.summary = Summary(3, 60, 7, 2)
  /\ resp.body = formatScan(scans[resp.id])

(* C24: a create request without targetUrl or without repoPath is answered
   with a validation error (400); it adds no record, changes none, and makes
   no call to startWorkflow. *)
C24_InvalidCreateRejected ==
  [][ \A s \in Slots : \A u \in Inputs(Urls) : \A r \in Inputs(Repos) :
        \A c \in Configs :
          ( /\ u = NULL \/ r = NULL
            /\ slots[s].pc = "idle"
            /\ CreateInvalid(s, u, r) \/ CreateBegin(s, u, r, c) )
            => /\ resp'.kind = "create" /\ resp'.code = 400
               /\ scans' = scans
               /\ startLog' = startLog
               /\ tasks' = tasks /\ slots' = slots
               /\ workflows' = workflows ]_vars

C24_Witness ==
  /\ resp.kind = "create" /\ resp.code = 400
  /\ Len(scans) = 1
  /\ scans[1].status = "running"

(* C25: syncOne on a scan without a workflowId answers with the scan as it
   is stored, whatever its status; it makes no orchestrator call and writes
   nothing to the store. *)
C25_SyncOneWithoutWorkflow ==
  [][ \A s \in Slots : \A id \in DOMAIN scans :
        ( /\ scans[id].workflow_id = NULL
          /\ slots[s].pc = "idle"
          /\ SyncOneLocal(s, id) \/ SyncOneBegin(s, id) )
          => /\ resp'.kind = "syncOne" /\ resp'.code = 200
             /\ resp'.body = formatScan(scans[id])
             /\ scans' = scans
             /\ tasks' = tasks /\ slots' = slots
             /\ workflows' = workflows
             /\ connection' = connection /\ client' = client ]_vars

C25_Witness ==
  /\ resp.kind = "syncOne" /\ resp.code = 200
  /\ resp.id \in DOMAIN scans
  /\ scans[resp.id].workflow_id = NULL
  /\ scans[resp.id].status = "pending"
  /\ resp.body = formatScan(scans[resp.id])

\* a step of one of the two read routes
ReadStep == GetList \/ \E i \in 1..(MaxScans + 1) : GetOne(i)

(* C28: the get and list routes can be served in every state, whatever the
   state of the orchestrator connection; they answer from the store alone
   (every stored scan for list; the stored scan, or 404, for get) and change
   neither the store, nor the client and its connection, nor the calls in
   flight. *)
C28_ReadsAreLocal ==
  [][ /\ ENABLED GetList
      /\ \A i \in 1..(MaxScans + 1) : ENABLED GetOne(i)
      /\ (resp'.kind \in {"list", "get"} /\ ReadStep)
          => /\ scans' = scans
             /\ connection' = connection /\ client' = client
             /\ nconn' = nconn
             /\ tasks' = tasks /\ slots' = slots
             /\ workflows' = workflows /\ startLog' = startLog
             /\ resp'.kind = "list" =>
                  /\ resp'.code = 200
                  /\ Len(resp'.body) = Len(scans)
                  /\ \A i \in DOMAIN scans : \E k \in DOMAIN resp'.body :
                       resp'.body[k] = formatScan(scans[i])
             /\ resp'.kind = "get" =>
                  IF resp'.id \in StoredIds(scans)
                    THEN /\ resp'.code = 200
                         /\ resp'.body = formatScan(scans[resp'.id])
                    ELSE resp'.code = 404 ]_vars

\* a get answered while the connection attempt of a create is in flight
C28_Witness ==
  /\ resp.kind = "get" /\ resp.code = 200
  /\ client = NULL
  /\ \E s \in Slots : \E i \in DOMAIN tasks[s] : tasks[s][i].pc = "connect"
  /\ Len(scans) = 2
  /\ resp.body.status = "failed"

(* C29: a create request that is handled to its end never leaves its scan
   pending, and every scan created by a valid request gets status running or
   failed at some time, given that its connection attempt and its start call
   are settled at some time. *)
C29_CreateLeavesPending ==
  /\ [][ \A s \in Slots : \A i \in DOMAIN scans :
           (slots[s].kind = "create" /\ slots[s].id = i /\ resp'.slot = s)
             => scans'[i].status \in {"running", "failed"} ]_vars
  /\ \A i \in ScanIds :
       (i \in DOMAIN scans /\ scans[i].status = "pending")
         ~> (i \in DOMAIN scans /\ scans[i].status \in {"running", "failed"})

C29_Witness ==
  /\ resp.kind = "create" /\ resp.code = 500
  /\ Len(scans) = 2
  /\ resp.id = 2
  /\ scans[2].status = "failed"
  /\ scans[1].status = "running"

(* C30: a syncAll call returns only when every per-scan query of the call
   has settled (not while one is outstanding, not at the first failure), and
   it does return at some time, given that each of its queries is settled at
   some time.  The handler in slot s stays there until it answers or until a
   handler in a lower slot answers, which moves it one slot down. *)
C30_SyncAllAwaitsAll ==
  /\ [][ \A s \in Slots :
           ( /\ slots[s].kind = "syncAll" /\ slots[s].pc = "busy"
             /\ resp'.kind = "syncAll" /\ resp'.slot = s )
             => \A i \in DOMAIN tasks[s] : tasks[s][i].pc = "settled" ]_vars
  /\ \A s \in Slots :
       (slots[s].kind = "syncAll")
         ~> \/ resp.kind = "syncAll" /\ resp.slot = s
            \/ resp.slot > 0 /\ resp.slot < s

C30_Witness ==
  /\ resp.kind = "syncAll" /\ resp.slot > 0
  /\ resp.body = 2
  /\ scans[1].status = "completed"
  /\ scans[2].status = "running"
  /\ scans[2].current_phase = NULL

(* C32: in every state reached through create, syncOne and syncAll requests
   a pending scan has no workflowId, and a running or completed scan has the
   workflowId that the successful startWorkflow call of that scan returned. *)
C32_WorkflowIdFollowsStatus ==
  \A i \in DOMAIN scans :
    /\ scans[i].status = "pending" => scans[i].workflow_id = NULL
    /\ scans[i].status \in {"running", "completed"} =>
         /\ scans[i].workflow_id # NULL
         /\ i \in DOMAIN startLog
         /\ startLog[i].state = "ok"
         /\ startLog[i].wid = scans[i].workflow_id

C32_Witness ==
  /\ Len(scans) = 2
  /\ scans[1].status = "completed"
  /\ scans[1].workflow_id = startLog[1].wid
  /\ scans[1].workflow_id # NULL
  /\ scans[2].status = "pending"
  /\ scans[2].workflow_id = NULL

\* the order in which a workflow produces its reports: it reports running
\* until it ends, and completed or failed from then on
ReportRank(status) == IF status \in Terminal THEN 1 ELSE 0

(* C33: when several syncs of one scan are in flight, a report that is
   written to the scan is never older than the report the record already
   shows: a write never takes the record back from the report of a finished
   workflow to a report produced while the workflow was still running. *)
C33_LastWriteIsLatestReport ==
  [][ \A s \in Slots : \A i \in ScanIds :
        ( /\ i \in DOMAIN tasks[s]
          /\ slots[s].kind \in {"syncOne", "syncAll"}
          /\ tasks[s][i].pc = "answered"
          /\ tasks[s][i].res.tag = "progress"
          /\ Ends(s, i) )
          => ReportRank(scans'[i].status) >= ReportRank(scans[i].status) ]_vars

(* C34: the record that a syncOne call returns is the record stored for the
   scan at the moment the call returns, in each of its branches (no workflow
   id, completed or failed scan, query not answered, progress applied), also
   when other syncs of the scan are in flight. *)
C34_SyncOneReturnsStored ==
  [][ (resp'.kind = "syncOne" /\ resp'.code = 200)
        => resp'.body = formatScan(scans'[resp'.id]) ]_vars

(* C38: the workflowId of a scan is written at most once: once it is not
   null, no create, syncOne or syncAll step changes it or sets it back to
   null. *)
C38_WorkflowIdWrittenOnce ==
  [][ \A i \in DOMAIN scans :
        scans[i].workflow_id # NULL
          => scans'[i].workflow_id = scans[i].workflow_id ]_vars

C38_Witness ==
  /\ resp.kind = "syncOne" /\ resp.branch = "applied"
  /\ scans[resp.id].status = "completed"
  /\ scans[resp.id].updated_at > scans[resp.id].created_at
  /\ scans[resp.id].workflow_id # NULL
  /\ scans[resp.id].workflow_id = startLog[resp.id].wid

\* workflow w is submitted in this step: it runs now and did not before
Submitted(w) ==
  /\ w \in DOMAIN workflows'
  /\ workflows'[w] = "running"
  /\ w \in DOMAIN workflows => workflows[w] # "running"

(* C39: startWorkflow is invoked for a scan only once its pending record is
   in the table, and at most once per scan; a workflow is submitted only by
   the create handler of a scan whose start call is still open, never by a
   sync; so there are never more submissions than scans. *)
C39_OneStartPerScan ==
  /\ [](/\ DOMAIN startLog = DOMAIN scans
        /\ \A s \in Slots : slots[s].kind = "create" =>
             /\ slots[s].id \in DOMAIN scans
             /\ DOMAIN tasks[s] = {slots[s].id}
             /\ startLog[slots[s].id].state = "pending"
             /\ \A t \in Slots :
                  (slots[t].kind = "create" /\ slots[t].id = slots[s].id) => t = s)
  /\ [][ /\ \A i \in DOMAIN startLog :
             /\ startLog[i].state # "pending" => startLog'[i] = startLog[i]
             /\ startLog'[i] # startLog[i] =>
                  resp'.kind = "create" /\ resp'.id = i
        /\ \A w \in DOMAIN workflows' :
             Submitted(w) =>
               /\ resp'.kind = "create"
               /\ resp'.id \in DOMAIN startLog
               /\ startLog[resp'.id].state = "pending"
               /\ startLog'[resp'.id].state = "ok"
               /\ startLog'[resp'.id].wid = w ]_vars

C39_Witness ==
  /\ Len(scans) = 2
  /\ startLog[1].state = "ok"
  /\ startLog[2].state = "failed" /\ startLog[2].msg = START_MSG
  /\ resp.kind = "syncAll" /\ resp.body = 1
  /\ scans[1].status = "completed"

\* the callback of server.close calls closeTemporalConnection in this step
CloseInvoked == server = "draining" /\ server' \in {"closing", "exited"}

(* C31: on shutdown no request is accepted once the server has been told
   to close, and closeTemporalConnection is invoked only after that and only
   when no request handler is still running. *)
C31_CloseAfterRequests ==
  [][ /\ server # "listening" =>
           \A s \in Slots : slots[s].pc = "idle" => slots'[s].pc = "idle"
      /\ CloseInvoked => Quiet ]_vars

(* ================ properties of the connection life cycle =============== *)
(* C6: when a connection attempt fails, nothing stays cached (no client, no
   connection, no attempt in flight), every caller that awaited the attempt
   gets the failure, and the next call starts a new attempt. *)
C6_FailedAttemptDiscarded ==
  [][ /\ \A k \in DOMAIN attempts :
           (attempts[k] = "pending" /\ attempts'[k] = "failed")
             => client' = NULL /\ connection' = NULL /\ connecting' = NULL
      /\ \A c \in 1..MaxCallers :
           (callers[c].pc = "await" /\ callers'[c].pc # "await")
             => (attempts[callers[c].att] = "failed") = (callers'[c].pc = "failed")
      /\ \A c \in 1..MaxCallers :
           (callers[c].pc # "await" /\ callers'[c].pc = "await")
             => /\ attempts'[callers'[c].att] = "pending"
                /\ (client = NULL /\ connecting = NULL)
                     => Len(attempts') = Len(attempts) + 1 ]_vars

C6_Witness ==
  \E k \in DOMAIN attempts : \E c, d \in 1..MaxCallers :
    /\ attempts[k] = "failed"
    /\ callers[c].pc = "failed" /\ callers[c].att = k
    /\ callers[d].pc = "await" /\ callers[d].att > k
    /\ attempts[callers[d].att] = "pending"

(* ======================== properties of syncAll ========================= *)
\* the scans that a listing shows as running with a workflow id
Eligible(scs) ==
  { i \in DOMAIN scs : scs[i].status = "running" /\ scs[i].workflow_id # NULL }

\* the handler in slot s takes its listing in this step
SyncAllStarts(s) == slots[s].pc = "idle" /\ slots'[s].kind = "syncAll"

(* C11: syncAll queries exactly the scans that its listing shows as running
   with a workflow id, each of them once, and neither queries nor updates any
   other scan. *)
C11_SyncAllQueriesEligibleOnly ==
  /\ [][ \A s \in Slots :
           SyncAllStarts(s) =>
             /\ DOMAIN tasks'[s] = Eligible(scans)
             /\ \A i \in DOMAIN tasks'[s] :
                  /\ tasks'[s][i].pc \in {"connect", "call"}
                  /\ tasks'[s][i].wid = scans[i].workflow_id ]_vars
  /\ [][ \A s \in Slots :
           (slots[s].kind = "syncAll" /\ slots'[s] = slots[s] /\ resp' = NoResp)
             => /\ DOMAIN tasks'[s] = DOMAIN tasks[s]
                /\ \A i \in DOMAIN tasks[s] :
                     tasks[s][i].pc = "settled" => tasks'[s][i] = tasks[s][i]
                /\ (tasks'[s] # tasks[s]) =>
                     \A j \in DOMAIN scans :
                       scans'[j] # scans[j] => j \in DOMAIN tasks[s] ]_vars

C11_Witness ==
  \E s \in Slots :
    /\ slots[s].kind = "syncAll"
    /\ Len(scans) = 2
    /\ \E i, j \in DOMAIN scans :
         /\ DOMAIN tasks[s] = {i}
         /\ tasks[s][i].pc = "settled" /\ tasks[s][i].out = "applied"
         /\ scans[j].workflow_id # NULL
         /\ scans[j].status \in {"completed", "failed"}
         /\ scans[j].updated_at < now

(* C12: the number that syncAll returns is the number of scans that were
   running with a workflow id in its listing, whether their queries brought
   progress or not. *)
C12_SyncAllCountsAttempts ==
  [][ \A s \in Slots :
        (resp'.kind = "syncAll" /\ resp'.slot = s) =>
          /\ resp'.code = 200
          /\ slots[s].pc = "idle" => resp'.body = Cardinality(Eligible(scans))
          /\ slots[s].pc = "busy" =>
               resp'.body = Cardinality({ i \in DOMAIN tasks[s] :
                                            /\ tasks[s][i].row.status = "running"
                                            /\ tasks[s][i].row.workflow_id # NULL })
    ]_vars

C12_Witness ==
  /\ resp.kind = "syncAll" /\ resp.body = 2
  /\ \E i, j \in DOMAIN scans :
       /\ scans[i].status = "running" /\ scans[i].current_phase = NULL
       /\ scans[j].status = "completed"

(* ============ properties of the connection life cycle, continued ======== *)
(* C13: whatever the interleaving of getTemporalClient and
   closeTemporalConnection calls, at most one connection is established and not
   yet closed. *)
C13_OneLiveConnection == Cardinality(open) <= 1

\* caller c calls getTemporalClient in this step
Calls(c) == CallerFree(c) /\ callers'[c] # callers[c]

(* C14: once an attempt has succeeded and until closeTemporalConnection is
   called, every getTemporalClient call returns the cached client and starts no
   connection attempt. *)
C14_CachedClientReused ==
  [][ \A c \in 1..MaxCallers :
        ( /\ Calls(c)
          /\ client # NULL
          /\ \A z \in 1..MaxClosers : closers[z].pc # "closing" )
          => /\ attempts' = attempts
             /\ callers'[c].pc = "got"
             /\ callers'[c].got = client ]_vars

C14_Witness ==
  \E c, d \in 1..MaxCallers :
    /\ c # d
    /\ client # NULL
    /\ callers[c].pc = "got" /\ callers[c].got = client
    /\ callers[d].pc = "got" /\ callers[d].got = client
    /\ callers[c].att # callers[d].att
    /\ Len(attempts) = 1

(* C15: closeTemporalConnection with a cached connection closes that
   connection and clears the cached connection and client, after which the next
   getTemporalClient call starts a new attempt; with nothing cached it does
   nothing. *)
C15_CloseClearsCache ==
  [][ /\ \A z \in 1..MaxClosers :
           (closers[z].pc = "closing" /\ closers'[z].pc = "returned")
             => /\ closers[z].conn \notin open'
                /\ client' = NULL /\ connection' = NULL
      /\ \A z \in 1..MaxClosers :
           (closers[z].pc # "closing" /\ closers'[z] # closers[z])
             => IF connection = NULL
                  THEN /\ closers'[z].pc = "returned"
                       /\ UNCHANGED <<connection, client, connecting, open,
                                      attempts>>
                  ELSE /\ closers'[z].pc = "closing"
                       /\ closers'[z].conn = connection
      /\ \A c \in 1..MaxCallers :
           (Calls(c) /\ client = NULL /\ connecting = NULL)
             => /\ Len(attempts') = Len(attempts) + 1
                /\ callers'[c].pc = "await"
                /\ callers'[c].att = Len(attempts') ]_vars

C15_Witness ==
  /\ Len(attempts) = 2
  /\ attempts[1] = "ok" /\ attempts[2] = "pending"
  /\ open = {}
  /\ client = NULL /\ connection = NULL
  /\ \E z \in 1..MaxClosers : closers[z].pc = "returned"
  /\ \E c \in 1..MaxCallers : callers[c].pc = "await" /\ callers[c].att = 2

(* C35: in every state of the client module, no connection attempt is in
   flight while a client is cached, and a client is cached exactly when a
   connection is cached. *)
C35_ClientStateConsistent ==
  /\ connecting # NULL => client = NULL
  /\ (client # NULL) <=> (connection # NULL)
  /\ connecting # NULL =>
       /\ AttemptNo(connecting) \in DOMAIN attempts
       /\ attempts[AttemptNo(connecting)] = "pending"

\* a second attempt in flight after the first connection was closed
C35_Witness ==
  /\ Len(attempts) = 2
  /\ attempts[1] = "ok" /\ attempts[2] = "pending"
  /\ connecting # NULL
  /\ client = NULL /\ connection = NULL
  /\ \E z \in 1..MaxClosers : closers[z].pc = "closing"

(* C37: getTemporalClient never resolves to a client whose connection has
   been closed or is being closed, also for a call made while
   closeTemporalConnection awaits the close of the connection. *)
C37_NoClosedClientReturned ==
  [][ \A c \in 1..MaxCallers :
        (callers'[c] # callers[c] /\ callers'[c].pc = "got")
          => /\ callers'[c].got \in open
             /\ \A z \in 1..MaxClosers :
                  closers[z].pc = "closing" => closers[z].conn # callers'[c].got
    ]_vars

(* C36: once a closeTemporalConnection call has completed, and no operation
   of the client is invoked after that call, no connection is open and none
   is cached, also when a connection attempt was in flight at the time of
   the call. *)
C36_NothingOpenAfterClose ==
  (\E z \in 1..MaxClosers : closers[z].pc = "returned")
    => /\ connection = NULL
       /\ client = NULL
       /\ open = {}

(* ===================== properties of the scan store ===================== *)
(* C16: no two scan records hold the same non-null workflowId, also when two
   create requests for one hostname derive the same identifier. *)
C16_WorkflowIdUnique ==
  \A i, j \in DOMAIN scans :
    (i # j /\ scans[i].workflow_id # NULL)
      => scans[i].workflow_id # scans[j].workflow_id

C16_Witness ==
  \E i, j \in DOMAIN scans :
    /\ i # j
    /\ startLog[i].state = "ok" /\ startLog[j].state = "ok"
    /\ startLog[i].wid = startLog[j].wid
    /\ scans[i].workflow_id = startLog[i].wid
    /\ scans[j].workflow_id = NULL
    /\ Contains(scans[j].error, UNIQUE_MSG)

(* C17: two startWorkflow invocations return distinct workflow identifiers
   when their hostnames differ or they are invoked at different instants, the
   identifier being the sanitized hostname joined with the timestamp of the
   invocation.  Handlers run one step at a time, so two invocations are never
   made at the same instant: any two returned identifiers must differ. *)
C17_DistinctWorkflowIds ==
  /\ \A i \in DOMAIN startLog :
       startLog[i].state = "ok" =>
         \E t \in 0..now : startLog[i].wid = WorkflowIdOf(scans[i].target_url, t)
  /\ \A i, j \in DOMAIN startLog :
       (i # j /\ startLog[i].state = "ok" /\ startLog[j].state = "ok")
         => startLog[i].wid # startLog[j].wid

\* the column of a row that holds the patch field f
Column(row, f) ==
  CASE f = "workflowId" -> row.workflow_id
    [] f = "status" -> row.status
    [] f = "currentPhase" -> row.current_phase
    [] f = "currentAgent" -> row.current_agent
    [] f = "completedAgents" -> row.completed_agents
    [] f = "error" -> row.error
    [] OTHER -> row.summary

\* the columns no patch can name
KeptColumns(row) ==
  <<row.id, row.target_url, row.repo_path, row.config_path, row.created_at>>

\* another record already holds the workflowId the patch carries
Taken(id, patch) ==
  /\ "workflowId" \in DOMAIN patch
  /\ \E j \in DOMAIN scans : j # id /\ scans[j].workflow_id = patch["workflowId"]

\* this step is the call updateScan(id, patch)
UpdateCall(id, patch) ==
  resp'.kind = "updateScan" /\ resp'.id = id /\ StoreUpdate(id, patch)

(* C18: updatedAt of a scan never decreases from one operation to the next,
   and every update that is carried out with at least one field sets it to
   the current time (as does the creation of the scan). *)
C18_UpdatedAtMonotone ==
  [][ /\ \A i \in DOMAIN scans :
           i \in DOMAIN scans' /\ scans'[i].updated_at >= scans[i].updated_at
      /\ resp'.kind = "createScan" =>
           scans'[resp'.id].updated_at = now
      /\ \A id \in DOMAIN scans : \A patch \in StorePatches :
           ( /\ UpdateCall(id, patch)
             /\ DOMAIN patch # {}
             /\ resp'.branch = "returned" )
             => scans'[id].updated_at = now ]_vars

C18_Witness ==
  /\ resp.kind = "updateScan" /\ resp.branch = "returned"
  /\ resp.id \in DOMAIN scans
  /\ scans[resp.id].created_at < now
  /\ scans[resp.id].updated_at = now

(* C19: updateScan with a patch that names no field returns the record as it
   is stored and changes nothing in the table; updatedAt keeps its value. *)
C19_EmptyPatchNoOp ==
  [][ \A id \in ScanIds :
        UpdateCall(id, EmptyPatch)
          => /\ scans' = scans
             /\ resp'.branch = "returned"
             /\ resp'.body = getScan(scans, id) ]_vars

C19_Witness ==
  /\ resp.kind = "updateScan" /\ resp.branch = "returned"
  /\ resp.id \in DOMAIN scans
  /\ resp.body = <<scans[resp.id]>>
  /\ scans[resp.id].status = "running"
  /\ scans[resp.id].updated_at < now

\* the effect the patch is to have on record id: its fields are set, the rest
\* of the record and the other records are kept, updatedAt is refreshed, and
\* the record returned is the one a following getScan(id) reads
Applied(id, patch) ==
  /\ DOMAIN scans' = DOMAIN scans
  /\ \A f \in DOMAIN patch : formatScan(scans'[id])[f] = patch[f]
  /\ \A f \in PatchFields \ DOMAIN patch :
       Column(scans'[id], f) = Column(scans[id], f)
  /\ KeptColumns(scans'[id]) = KeptColumns(scans[id])
  /\ scans'[id].updated_at = now
  /\ \A j \in DOMAIN scans : j # id => scans'[j] = scans[j]
  /\ resp'.branch = "returned"
  /\ resp'.body = getScan(scans', id)

(* C20, as stated: updateScan(id, patch) with any non-empty patch sets exactly
   the fields of the patch, refreshes updatedAt, leaves the other fields and
   the other records unchanged, and returns what getScan(id) then reads. *)
C20_UpdateSetsPatchFields ==
  [][ \A id \in DOMAIN scans : \A patch \in StorePatches :
        (UpdateCall(id, patch) /\ DOMAIN patch # {}) => Applied(id, patch) ]_vars

(* C20, amended: the above holds for every non-empty patch unless the patch
   carries a workflowId that another record holds; such an update is rejected
   with an exception and changes nothing. *)
C20_AcceptedUpdateSetsPatchFields ==
  [][ \A id \in DOMAIN scans : \A patch \in StorePatches :
        (UpdateCall(id, patch) /\ DOMAIN patch # {})
          => IF Taken(id, patch)
               THEN scans' = scans /\ resp'.branch = "throws"
               ELSE Applied(id, patch) ]_vars

C20_Witness ==
  /\ resp.kind = "updateScan" /\ resp.branch = "returned"
  /\ Len(scans) >= 2
  /\ resp.id = 2
  /\ scans[2].status = "completed"
  /\ scans[2].summary = StringifySummary(Summary(3, 60, 7, 2))
  /\ scans[2].created_at < now /\ scans[2].updated_at = now
  /\ scans[1].status = "running" /\ scans[1].workflow_id = "wf-123"
  /\ scans[1].updated_at < now

(* C21: createScan(targetUrl, repoPath, configPath?) adds one record and
   changes no other; the record has an id no record had, the inputs, status
   pending, no completed agent, no workflowId, configPath as given or null,
   createdAt equal to updatedAt, and getScan of its id returns it at once. *)
C21_CreateScanRecord ==
  [][ \A u \in Urls : \A r \in Repos : \A c \in StoreConfigs :
        (resp'.kind = "createScan" /\ StoreCreate(u, r, c))
          => LET row == resp'.body[1]
             IN /\ Len(scans') = Len(scans) + 1
                /\ \A i \in DOMAIN scans : scans'[i] = scans[i]
                /\ row.id \notin StoredIds(scans)
                /\ row.id = resp'.id
                /\ row.target_url = u /\ row.repo_path = r
                /\ row.config_path = c
                /\ row.status = "pending"
                /\ ParseAgents(row.completed_agents) = <<>>
                /\ row.workflow_id = NULL
                /\ row.created_at = now /\ row.updated_at = row.created_at
                /\ getScan(scans', row.id) = <<row>> ]_vars

C21_Witness ==
  /\ resp.kind = "createScan"
  /\ Len(scans) = 2
  /\ resp.id = 2
  /\ resp.body = getScan(scans, 2)
  /\ scans[2].config_path = NULL
  /\ scans[1].config_path = "./configs/test.yaml"
  /\ scans[1].status = "completed"

\* the position of the row with this id in a listing
Position(rows, id) == CHOOSE k \in DOMAIN rows : rows[k].id = id

(* C22: listScans returns every scan once, ordered by createdAt descending,
   and of two scans with equal createdAt the one inserted later comes
   first. *)
C22_ListNewestFirst ==
  [][ resp'.kind = "listScans" =>
        LET rows == resp'.body
        IN /\ Len(rows) = Len(scans)
           /\ \A i \in DOMAIN scans : \E k \in DOMAIN rows : rows[k] = scans[i]
           /\ \A i, j \in DOMAIN scans :
                ( \/ scans[i].created_at > scans[j].created_at
                  \/ /\ scans[i].created_at = scans[j].created_at
                     /\ i > j )
                  => Position(rows, scans[i].id) < Position(rows, scans[j].id)
    ]_vars

(* C23: getScan, getScanByWorkflowId and updateScan on an id or workflow id
   that is not stored return the NotFound value without raising and leave
   the store as it is; syncOne on an id that is not stored answers NotFound
   without a call to the orchestrator. *)
C23_UnknownKeyNotFound ==
  [][ /\ \A id \in LookupIds \ StoredIds(scans) :
           /\ (resp'.kind = "getScan" /\ StoreGet(id))
                => resp'.body = <<>> /\ scans' = scans
           /\ \A patch \in StorePatches :
                (resp'.kind = "updateScan" /\ StoreUpdate(id, patch))
                  => /\ resp'.branch = "returned"
                     /\ resp'.body = <<>>
                     /\ scans' = scans
           /\ (resp'.kind = "syncOne" /\ SyncOneLocal(1, id))
                => /\ resp'.code = 404
                   /\ scans' = scans
                   /\ tasks' = tasks /\ slots' = slots
                   /\ workflows' = workflows
                   /\ connection' = connection /\ client' = client
      /\ \A w \in LookupWorkflowIds :
           ( /\ \A i \in DOMAIN scans : scans[i].workflow_id # w
             /\ resp'.kind = "getScanByWorkflowId"
             /\ StoreGetByWorkflowId(w) )
             => resp'.body = <<>> /\ scans' = scans ]_vars

C23_Witness ==
  /\ resp.kind = "getScanByWorkflowId"
  /\ resp.body = <<>>
  /\ Len(scans) = 2
  /\ scans[1].workflow_id = "wf-123"

(* C26: no operation removes a record and no id is given twice: the set of
   stored ids only grows, the stored ids are pairwise different, and the id a
   create returns is none of the ids stored before. *)
C26_IdsOnlyGrow ==
  [][ /\ StoredIds(scans) \subseteq StoredIds(scans')
      /\ Cardinality(StoredIds(scans')) = Len(scans')
      /\ resp'.kind = "createScan" =>
           /\ resp'.id \notin StoredIds(scans)
           /\ resp'.id \in StoredIds(scans') ]_vars

C26_Witness ==
  /\ resp.kind = "createScan"
  /\ StoredIds(scans) = {1, 2}
  /\ resp.id = 2
  /\ scans[1].status = "failed"

(* C27: id, targetUrl, repoPath, configPath and createdAt of a scan keep the
   values given at creation under every later step of the routes (the update
   after the start, syncOne, syncAll). *)
C27_InputsImmutable ==
  [][ \A i \in DOMAIN scans :
        /\ i \in DOMAIN scans'
        /\ KeptColumns(scans'[i]) = KeptColumns(scans[i]) ]_vars

C27_Witness ==
  /\ resp.kind = "syncAll"
  /\ Len(scans) = 2
  /\ scans[1].status = "completed"
  /\ scans[1].created_at = 0 /\ scans[1].updated_at = 1
  /\ KeptColumns(scans[1]) = <<1, "https://a.com", "repo", NULL, 0>>
  /\ scans[2].status = "failed"

====
